---- MODULE Spec2Model ----
(***************************************************************************)
(* A model of homework.py: the credential gate, the API client, the        *)
(* response validator, the status translator, the notifier and the poll    *)
(* loop of main().                                                         *)
(*                                                                         *)
(* Python values are tagged records: None, Str(s), List(q), Dict(f).       *)
(* A JSON document decodes to these (null -> None, string -> Str,          *)
(* array -> List, object -> Dict).  The Cyrillic string literals of the    *)
(* source are written in Latin transliteration, one literal per            *)
(* definition, because the module text is ASCII.                           *)
(***************************************************************************)
EXTENDS Integers, Sequences, FiniteSets, TLC

VARIABLES
    PRACTICUM_TOKEN,   \* module global, line 11
    TELEGRAM_TOKEN,    \* module global, line 12
    TELEGRAM_CHAT_ID,  \* module global, line 13
    pc,                \* position of main()
    clock,             \* wall clock read by time.time()
    timestamp,         \* main's local, line 130
    response,          \* main's local, line 134
    homeworks,         \* main's local, line 135
    idx,               \* position of the for loop of line 138 (1-based)
    message,           \* main's local, lines 139 and 148
    error,             \* the exception in flight, or NoError
    log,               \* history: the calls of the current iteration, in order
    iter,              \* history: number of iterations started
    cursors,           \* history: every from_date passed to get_api_answer
    lastNotified,      \* history: per item name, the status last notified
    dropped,           \* history: item messages whose delivery failed in an
                       \* earlier iteration
    repeated,          \* history: the handler's message equals the message
                       \* variable it replaced
    call,              \* unit harness: the function applied and its argument
    result             \* unit harness: what the call returned or raised

vars == <<PRACTICUM_TOKEN, TELEGRAM_TOKEN, TELEGRAM_CHAT_ID, pc, clock,
          timestamp, response, homeworks, idx, message, error, log, iter,
          cursors, lastNotified, dropped, repeated, call, result>>

-----------------------------------------------------------------------------
(* Bounds *)

MaxItems == 2

MaxIter == 2

-----------------------------------------------------------------------------
(* Python values *)

None == [t |-> "None"]

Str(s) == [t |-> "str", v |-> s]

List(q) == [t |-> "list", v |-> q]

Dict(f) == [t |-> "dict", v |-> f]

\* bool(x) for the values the model holds
Truthy(x) ==
    CASE x.t = "None" -> FALSE
      [] x.t = "str"  -> x.v # ""
      [] x.t = "list" -> x.v # <<>>
      [] x.t = "dict" -> DOMAIN x.v # {}

\* str(x), as an f-string renders the value
Format(x) ==
    CASE x.t = "None" -> "None"
      [] x.t = "str"  -> x.v
      [] x.t = "list" -> "[]"
      [] x.t = "dict" -> "{}"

\* lists and dicts are unhashable: they cannot be used as a dict key
Hashable(x) == x.t \notin {"list", "dict"}

\* d.get(key) on a Dict whose keys are strings
DictGet(d, key) == IF key \in DOMAIN d.v THEN d.v[key] ELSE None

-----------------------------------------------------------------------------
(* Exceptions: a class and the text str(e) is built from *)

Exc(type, text) == [type |-> type, text |-> text]

\* The direct base class of each exception class the program meets
BaseOf(type) ==
    CASE type = "ApiTelegramException" -> "ApiException"
      [] type = "ApiHTTPException"     -> "ApiException"
      [] type = "ConnectionError"      -> "RequestException"
      [] type = "HTTPError"            -> "RequestException"
      [] type = "JSONDecodeError"      -> "RequestException"
      [] OTHER                         -> "Exception"

\* isinstance(e, cls), the hierarchy being two levels deep
IsInstance(e, cls) ==
    \/ e.type = cls
    \/ BaseOf(e.type) = cls
    \/ cls = "Exception"

\* str(e): KeyError renders the repr of its argument, the others the text
ExcStr(e) == IF e.type = "KeyError" THEN "'" \o e.text \o "'" ELSE e.text

Return(v) == [raised |-> FALSE, val |-> v]

Raise(e) == [raised |-> TRUE, exc |-> e]

NoError == Exc("", "")

-----------------------------------------------------------------------------
(* Module constants and string literals *)

RETRY_PERIOD == 600

HTTP_OK == 200

\* lines 19-23
HOMEWORK_VERDICTS ==
    [approved  |-> "Rabota proverena: revyueru vsyo ponravilos. Ura!",
     reviewing |-> "Rabota vzyata na proverku revyuerom.",
     rejected  |-> "Rabota proverena: u revyuera est zamechaniya."]

TOKEN_NAMES == <<"PRACTICUM_TOKEN", "TELEGRAM_TOKEN", "TELEGRAM_CHAT_ID">>

MSG_MISSING_ENV == "Otsutstvuyut obyazatelnye peremennye okruzheniya: "

MSG_UNEXPECTED_HTTP == "API vernul neozhidannyi status: "

MSG_REQUEST_ERROR == "Oshibka zaprosa k API: "

MSG_NOT_DICT == "Otvet API dolzhen byt slovarem"

MSG_NO_KEYS == "Otsutstvuyut klyuchi v otvete API"

MSG_NOT_LIST == "Dannye pod klyuchom \"homeworks\" dolzhny byt spiskom"

MSG_NO_NAME == "Otsutstvuet klyuch \"homework_name\" v domashnei rabote"

MSG_BAD_STATUS == "Neozhidannyi status: "

MSG_FAILURE == "Sboi v rabote programmy: "

MSG_NO_NEW == "Net novyh statusov"

\* the f-string of line 123
StatusMessage(homework_name, verdict) ==
    "Izmenilsya status proverki raboty \"" \o Format(homework_name)
        \o "\". " \o Format(verdict)

\* ", ".join(names)
RECURSIVE Join(_)
Join(names) ==
    IF names = <<>> THEN ""
    ELSE IF Len(names) = 1 THEN names[1]
    ELSE names[1] \o ", " \o Join(Tail(names))

-----------------------------------------------------------------------------
(* check_tokens, lines 33-51 *)

\* globals().get(name) for the three token names
Globals(name) ==
    CASE name = "PRACTICUM_TOKEN"  -> PRACTICUM_TOKEN
      [] name = "TELEGRAM_TOKEN"   -> TELEGRAM_TOKEN
      [] name = "TELEGRAM_CHAT_ID" -> TELEGRAM_CHAT_ID

IsNone(x) == x.t = "None"

TokenIsNone(name) == IsNone(Globals(name))

check_tokens ==
    IF ~(Truthy(PRACTICUM_TOKEN) /\ Truthy(TELEGRAM_TOKEN)
            /\ Truthy(TELEGRAM_CHAT_ID))
    THEN LET missing_tokens == SelectSeq(TOKEN_NAMES, TokenIsNone)
         IN  Raise(Exc("ValueError", MSG_MISSING_ENV \o Join(missing_tokens)))
    ELSE Return(None)

-----------------------------------------------------------------------------
(* send_message, lines 54-60.  sent is what bot.send_message did: it        *)
(* returned, or it raised.                                                 *)

send_message(sent) ==
    IF sent.raised /\ IsInstance(sent.exc, "ApiException")
    THEN Return(None)
    ELSE sent

-----------------------------------------------------------------------------
(* handle_api_error, lines 63-70, and get_api_answer, lines 73-86.          *)
(* got is what requests.get did: it raised, or it returned a response      *)
(* object [status_code, json], json being what response.json() does.       *)

handle_api_error(resp) ==
    IF resp.status_code # HTTP_OK
    THEN Raise(Exc("HTTPError", MSG_UNEXPECTED_HTTP \o ToString(resp.status_code)))
    ELSE Return(None)

get_api_answer(ts, got) ==
    LET body == IF got.raised THEN got
                ELSE IF handle_api_error(got.val).raised
                     THEN handle_api_error(got.val)
                     ELSE got.val.json
    IN  IF body.raised /\ IsInstance(body.exc, "RequestException")
        THEN Raise(Exc("AssertionError", MSG_REQUEST_ERROR \o ExcStr(body.exc)))
        ELSE body

-----------------------------------------------------------------------------
(* check_response, lines 89-105 *)

\* the list check of lines 101-103 left out
check_response_NoListCheck(resp) ==
    IF resp.t # "dict"
    THEN Raise(Exc("TypeError", MSG_NOT_DICT))
    ELSE IF "homeworks" \notin DOMAIN resp.v
    THEN Raise(Exc("KeyError", MSG_NO_KEYS))
    ELSE Return(resp.v["homeworks"])

check_response(resp) ==
    IF resp.t # "dict"
    THEN Raise(Exc("TypeError", MSG_NOT_DICT))
    ELSE IF "homeworks" \notin DOMAIN resp.v
    THEN Raise(Exc("KeyError", MSG_NO_KEYS))
    ELSE IF resp.v["homeworks"].t # "list"
    THEN Raise(Exc("TypeError", MSG_NOT_LIST))
    ELSE Return(resp.v["homeworks"])

-----------------------------------------------------------------------------
(* parse_status, lines 108-123 *)

\* HOMEWORK_VERDICTS.get(key), for a hashable key
VerdictsGet(key) ==
    IF key.t = "str" /\ key.v \in DOMAIN HOMEWORK_VERDICTS
    THEN Str(HOMEWORK_VERDICTS[key.v])
    ELSE None

\* line 113 written as "if not homework_name": an empty name raises too
parse_status_EmptyNameRaises(homework) ==
    IF homework.t # "dict"
    THEN Raise(Exc("AttributeError", "object has no attribute 'get'"))
    ELSE LET homework_name   == DictGet(homework, "homework_name")
             homework_status == DictGet(homework, "status")
         IN  IF ~Truthy(homework_name)
             THEN Raise(Exc("KeyError", MSG_NO_NAME))
             ELSE IF ~Hashable(homework_status)
             THEN Raise(Exc("TypeError", "unhashable type"))
             ELSE IF IsNone(VerdictsGet(homework_status))
             THEN Raise(Exc("ValueError",
                            MSG_BAD_STATUS \o Format(homework_status)))
             ELSE Return(Str(StatusMessage(homework_name,
                                           VerdictsGet(homework_status))))

\* lines 119-121 left out: an unknown status is formatted like a verdict
parse_status_UnknownStatusPasses(homework) ==
    IF homework.t # "dict"
    THEN Raise(Exc("AttributeError", "object has no attribute 'get'"))
    ELSE LET homework_name   == DictGet(homework, "homework_name")
             homework_status == DictGet(homework, "status")
         IN  IF IsNone(homework_name)
             THEN Raise(Exc("KeyError", MSG_NO_NAME))
             ELSE IF ~Hashable(homework_status)
             THEN Raise(Exc("TypeError", "unhashable type"))
             ELSE Return(Str(StatusMessage(homework_name,
                                           VerdictsGet(homework_status))))

\* the status check of lines 117-121 made before the name check of 113-115
parse_status_StatusFirst(homework) ==
    IF homework.t # "dict"
    THEN Raise(Exc("AttributeError", "object has no attribute 'get'"))
    ELSE LET homework_name   == DictGet(homework, "homework_name")
             homework_status == DictGet(homework, "status")
         IN  IF ~Hashable(homework_status)
             THEN Raise(Exc("TypeError", "unhashable type"))
             ELSE IF IsNone(VerdictsGet(homework_status))
             THEN Raise(Exc("ValueError",
                            MSG_BAD_STATUS \o Format(homework_status)))
             ELSE IF IsNone(homework_name)
             THEN Raise(Exc("KeyError", MSG_NO_NAME))
             ELSE Return(Str(StatusMessage(homework_name,
                                           VerdictsGet(homework_status))))

parse_status(homework) ==
    IF homework.t # "dict"
    THEN Raise(Exc("AttributeError", "object has no attribute 'get'"))
    ELSE LET homework_name   == DictGet(homework, "homework_name")
             homework_status == DictGet(homework, "status")
         IN  IF IsNone(homework_name)
             THEN Raise(Exc("KeyError", MSG_NO_NAME))
             ELSE IF ~Hashable(homework_status)
             THEN Raise(Exc("TypeError", "unhashable type"))
             ELSE IF IsNone(VerdictsGet(homework_status))
             THEN Raise(Exc("ValueError",
                            MSG_BAD_STATUS \o Format(homework_status)))
             ELSE Return(Str(StatusMessage(homework_name,
                                           VerdictsGet(homework_status))))

-----------------------------------------------------------------------------
(* What the outside world can hand to the program *)

\* os.getenv: the variable is unset, set to the empty string, or set
EnvValues == {None, Str(""), Str("secret")}

Absent == [t |-> "absent"]

\* a JSON object with the given name and status, a field left out if Absent
MkItem(name, status) ==
    LET keys == (IF name.t = "absent" THEN {} ELSE {"homework_name"})
                    \cup (IF status.t = "absent" THEN {} ELSE {"status"})
    IN  Dict([k \in keys |-> IF k = "homework_name" THEN name ELSE status])

UnitNames == {Absent, None, Str(""), Str("HW1"), Str("HW2")}

UnitStatuses ==
    {Absent, None, Str("approved"), Str("reviewing"), Str("rejected"),
     Str("unknown_code"), List(<<>>)}

UnitItems == {MkItem(n, s) : n \in UnitNames, s \in UnitStatuses}

SeqsUpTo(S, n) == UNION {[1..k -> S] : k \in 0..n}

\* payloads handed to check_response alone: items are arbitrary JSON values
UnitPayloads ==
    {None, Str("homeworks"), List(<<>>), Dict(<<>>),
     Dict([current_date |-> None]),
     Dict([homeworks |-> None]), Dict([homeworks |-> Str("")]),
     Dict([homeworks |-> Dict(<<>>)])}
    \cup {Dict([homeworks |-> List(q)]) :
             q \in SeqsUpTo({None, Str("HW1"),
                             MkItem(Str("HW1"), Str("approved")),
                             MkItem(Absent, Str("rejected"))}, MaxItems)}

\* the work items the polled API returns in the model of the loop
PollItems ==
    {MkItem(Str("HW1"), Str("approved")), MkItem(Str("HW1"), Str("rejected")),
     MkItem(Str("HW2"), Str("unknown_code")), MkItem(Absent, Str("unknown_code"))}

PollNames == {"HW1", "HW2"}

PollPayloads ==
    {None, Dict(<<>>), Dict([homeworks |-> None])}
    \cup {Dict([homeworks |-> List(q)]) : q \in SeqsUpTo(PollItems, MaxItems)}

TransportFailures == {Raise(Exc("ConnectionError", "Connection refused"))}

BadStatusResponses ==
    {Return([status_code |-> c, json |-> Return(Dict(<<>>))]) : c \in {404, 500}}

\* a body that does not decode: response.json() raises requests' JSONDecodeError
\* (a RequestException) or, with an older requests, a plain ValueError
UndecodableResponses ==
    {Return([status_code |-> HTTP_OK, json |-> Raise(Exc(c, "Expecting value"))]) :
        c \in {"JSONDecodeError", "ValueError"}}

PayloadResponses ==
    {Return([status_code |-> HTTP_OK, json |-> Return(p)]) : p \in PollPayloads}

\* everything requests.get can do
GetOutcomes ==
    TransportFailures \cup BadStatusResponses \cup UndecodableResponses
        \cup PayloadResponses

GotKind(got) ==
    IF got.raised THEN "transport"
    ELSE IF got.val.status_code # HTTP_OK THEN "status"
    ELSE IF got.val.json.raised THEN "undecodable"
    ELSE "payload"

\* everything bot.send_message can do: deliver, fail with a chat API error
\* (bad token, error reply), or fail below the API with the transport's error
SendOutcomes ==
    {Return(None), Raise(Exc("ApiTelegramException", "Unauthorized")),
     Raise(Exc("ConnectionError", "Network is unreachable"))}

-----------------------------------------------------------------------------
(* History *)

Ev(op, why, n, text, out) ==
    [op |-> op, why |-> why, n |-> n, text |-> text, out |-> out]

Outcome(r) == IF r.raised THEN "raised" ELSE "returned"

\* how a send_message call ended: delivered, failure swallowed, failure raised
SendResult(sent) ==
    IF ~sent.raised THEN "delivered"
    ELSE IF send_message(sent).raised THEN "raised" ELSE "swallowed"

ItemName(h) == Format(DictGet(h, "homework_name"))

ItemStatus(h) == Format(DictGet(h, "status"))

\* known, overridden by the statuses that the item notifications of one
\* iteration delivered; lastNotified takes them in when the next one starts
RECURSIVE Delivered(_, _, _)
Delivered(known, entries, items) ==
    IF entries = <<>> THEN known
    ELSE LET e == Head(entries)
         IN  Delivered(
                 IF e.op = "send_message" /\ e.why = "item" /\ e.out = "delivered"
                 THEN [known EXCEPT ![ItemName(items[e.n])] = ItemStatus(items[e.n])]
                 ELSE known,
                 Tail(entries), items)

\* the texts of the item notifications of one iteration that were not
\* delivered; dropped takes them in when the next iteration starts
FailedItemTexts(entries) ==
    {entries[i].text : i \in {j \in DOMAIN entries :
                                 /\ entries[j].op = "send_message"
                                 /\ entries[j].why = "item"
                                 /\ entries[j].out # "delivered"}}

-----------------------------------------------------------------------------
(* main, lines 126-151 *)

tokens == <<PRACTICUM_TOKEN, TELEGRAM_TOKEN, TELEGRAM_CHAT_ID>>

unit == <<call, result>>

NoCall == [fn |-> "", arg |-> None, done |-> TRUE]

Init ==
    /\ PRACTICUM_TOKEN \in EnvValues
    /\ TELEGRAM_TOKEN \in EnvValues
    /\ TELEGRAM_CHAT_ID \in EnvValues
    /\ pc = "start"
    /\ clock \in {1000, 1001}
    /\ timestamp = 0
    /\ response = None
    /\ homeworks = None
    /\ idx = 0
    /\ message = None
    /\ error = NoError
    /\ log = <<>>
    /\ iter = 0
    /\ cursors = {}
    /\ lastNotified = [n \in PollNames |-> ""]
    /\ dropped = {}
    /\ repeated = FALSE
    /\ call = NoCall
    /\ result = Return(None)

\* lines 128-130: check_tokens(), TeleBot(...), timestamp = int(time.time())
Start ==
    /\ pc = "start"
    /\ IF check_tokens.raised
       THEN /\ error' = check_tokens.exc
            /\ pc' = "exited"
            /\ UNCHANGED timestamp
       ELSE /\ timestamp' = clock
            /\ pc' = "fetch"
            /\ UNCHANGED error
    /\ UNCHANGED <<tokens, clock, response, homeworks, idx, message, log, iter,
                   cursors, lastNotified, unit, dropped, repeated>>

\* line 134: response = get_api_answer(timestamp)
Fetch ==
    /\ pc = "fetch"
    /\ iter < MaxIter
    /\ \E got \in GetOutcomes :
         LET r == get_api_answer(timestamp, got)
         IN  /\ log' = <<Ev("get_api_answer", GotKind(got), timestamp, "", Outcome(r))>>
             /\ IF r.raised
                THEN /\ error' = r.exc
                     /\ pc' = "except"
                     /\ UNCHANGED response
                ELSE /\ response' = r.val
                     /\ pc' = "validate"
                     /\ UNCHANGED error
    /\ iter' = iter + 1
    /\ cursors' = cursors \cup {timestamp}
    /\ lastNotified' = Delivered(lastNotified, log,
                                 IF homeworks.t = "list" THEN homeworks.v ELSE <<>>)
    /\ dropped' = dropped \cup FailedItemTexts(log)
    /\ UNCHANGED <<tokens, clock, timestamp, homeworks, idx, message, unit,
                   repeated>>

\* lines 135-137 and 142: homeworks = check_response(response); if homeworks
Validate ==
    /\ pc = "validate"
    /\ LET r == check_response(response)
       IN  /\ log' = Append(log, Ev("check_response", "", 0, "", Outcome(r)))
           /\ IF r.raised
              THEN /\ error' = r.exc
                   /\ pc' = "except"
                   /\ UNCHANGED <<homeworks, idx>>
              ELSE /\ homeworks' = r.val
                   /\ idx' = 1
                   /\ pc' = IF Truthy(r.val) THEN "translate" ELSE "no_new"
                   /\ UNCHANGED error
    /\ UNCHANGED <<tokens, clock, timestamp, response, message, iter, cursors,
                   lastNotified, unit, dropped, repeated>>

\* an item that does not translate is logged and passed over
Translate_SkipsBadItem ==
    /\ pc = "translate"
    /\ LET r == parse_status(homeworks.v[idx])
       IN  /\ log' = Append(log, Ev("parse_status", "", idx, "", Outcome(r)))
           /\ IF r.raised
              THEN /\ UNCHANGED message
                   /\ IF idx < Len(homeworks.v)
                      THEN idx' = idx + 1 /\ pc' = "translate"
                      ELSE idx' = idx /\ pc' = "sleep"
              ELSE /\ message' = r.val
                   /\ pc' = "notify"
                   /\ UNCHANGED idx
    /\ UNCHANGED <<tokens, clock, timestamp, response, homeworks, error, iter,
                   cursors, lastNotified, unit, dropped, repeated>>

\* line 139: message = parse_status(homework)
Translate ==
    /\ pc = "translate"
    /\ LET r == parse_status(homeworks.v[idx])
       IN  /\ log' = Append(log, Ev("parse_status", "", idx, "", Outcome(r)))
           /\ IF r.raised
              THEN /\ error' = r.exc
                   /\ pc' = "except"
                   /\ UNCHANGED message
              ELSE /\ message' = r.val
                   /\ pc' = "notify"
                   /\ UNCHANGED error
    /\ UNCHANGED <<tokens, clock, timestamp, response, homeworks, idx, iter,
                   cursors, lastNotified, unit, dropped, repeated>>

\* line 140: send_message(bot, message), then the next item or the sleep
Notify ==
    /\ pc = "notify"
    /\ \E sent \in SendOutcomes :
         LET r == send_message(sent)
         IN  /\ log' = Append(log, Ev("send_message", "item", idx,
                                      Format(message), SendResult(sent)))
             /\ IF r.raised
                THEN /\ error' = r.exc
                     /\ pc' = "except"
                     /\ UNCHANGED idx
                ELSE /\ UNCHANGED error
                     /\ IF idx < Len(homeworks.v)
                        THEN idx' = idx + 1 /\ pc' = "translate"
                        ELSE idx' = idx /\ pc' = "sleep"
    /\ UNCHANGED <<tokens, clock, timestamp, response, homeworks, message, iter,
                   cursors, lastNotified, unit, dropped, repeated>>

\* the else branch of lines 142-143 left out
NoNew_Silent ==
    /\ pc = "no_new"
    /\ pc' = "sleep"
    /\ UNCHANGED <<tokens, clock, timestamp, response, homeworks, idx, message,
                   error, log, iter, cursors, lastNotified, unit, dropped,
                   repeated>>

\* line 143: logging.debug of the empty list
NoNew ==
    /\ pc = "no_new"
    /\ log' = Append(log, Ev("debug", "", 0, MSG_NO_NEW, "returned"))
    /\ pc' = "sleep"
    /\ UNCHANGED <<tokens, clock, timestamp, response, homeworks, idx, message,
                   error, iter, cursors, lastNotified, unit, dropped, repeated>>

\* the sleep of line 145 followed by a refresh of the cursor
Sleep_RefreshesCursor ==
    /\ pc = "sleep"
    /\ clock' = clock + RETRY_PERIOD
    /\ timestamp' = clock'
    /\ log' = Append(log, Ev("sleep", "try", RETRY_PERIOD, "", "returned"))
    /\ pc' = "fetch"
    /\ UNCHANGED <<tokens, response, homeworks, idx, message, error, iter,
                   cursors, lastNotified, unit, dropped, repeated>>

\* line 145: time.sleep(RETRY_PERIOD) at the end of the try block
Sleep ==
    /\ pc = "sleep"
    /\ clock' = clock + RETRY_PERIOD
    /\ log' = Append(log, Ev("sleep", "try", RETRY_PERIOD, "", "returned"))
    /\ pc' = "fetch"
    /\ UNCHANGED <<tokens, timestamp, response, homeworks, idx, message, error,
                   iter, cursors, lastNotified, unit, dropped, repeated>>

\* the handler keeps quiet when its message is the one it built last
Except_SuppressesRepeat ==
    /\ pc = "except"
    /\ message' = Str(MSG_FAILURE \o ExcStr(error))
    /\ IF Format(message) = MSG_FAILURE \o ExcStr(error)
       THEN /\ log' = log
            /\ error' = NoError
            /\ pc' = "except_sleep"
       ELSE \E sent \in SendOutcomes :
              LET r == send_message(sent)
              IN  /\ log' = Append(log, Ev("send_message", "error", 0,
                                           MSG_FAILURE \o ExcStr(error),
                                           SendResult(sent)))
                  /\ IF r.raised
                     THEN error' = r.exc /\ pc' = "exited"
                     ELSE error' = NoError /\ pc' = "except_sleep"
    /\ repeated' = (Format(message) = MSG_FAILURE \o ExcStr(error))
    /\ UNCHANGED <<tokens, clock, timestamp, response, homeworks, idx, iter,
                   cursors, lastNotified, unit, dropped>>

\* lines 147-150: the handler formats the error, notifies and logs it
Except ==
    /\ pc = "except"
    /\ message' = Str(MSG_FAILURE \o ExcStr(error))
    /\ \E sent \in SendOutcomes :
         LET r == send_message(sent)
         IN  /\ log' = Append(log, Ev("send_message", "error", 0,
                                      MSG_FAILURE \o ExcStr(error), SendResult(sent)))
             /\ IF r.raised
                THEN error' = r.exc /\ pc' = "exited"
                ELSE error' = NoError /\ pc' = "except_sleep"
    /\ repeated' = (Format(message) = MSG_FAILURE \o ExcStr(error))
    /\ UNCHANGED <<tokens, clock, timestamp, response, homeworks, idx, iter,
                   cursors, lastNotified, unit, dropped>>

\* line 151 left out: the handler goes straight back to the fetch
ExceptSleep_NoSleep ==
    /\ pc = "except_sleep"
    /\ pc' = "fetch"
    /\ UNCHANGED <<tokens, clock, timestamp, response, homeworks, idx, message,
                   error, log, iter, cursors, lastNotified, unit, dropped,
                   repeated>>

\* line 151: time.sleep(RETRY_PERIOD) at the end of the handler
ExceptSleep ==
    /\ pc = "except_sleep"
    /\ clock' = clock + RETRY_PERIOD
    /\ log' = Append(log, Ev("sleep", "except", RETRY_PERIOD, "", "returned"))
    /\ pc' = "fetch"
    /\ UNCHANGED <<tokens, timestamp, response, homeworks, idx, message, error,
                   iter, cursors, lastNotified, unit, dropped, repeated>>

Next ==
    \/ Start
    \/ Fetch
    \/ Validate
    \/ Translate
    \/ Notify
    \/ NoNew
    \/ Sleep
    \/ Except
    \/ ExceptSleep

Spec == Init /\ [][Next]_vars

-----------------------------------------------------------------------------
(* The functions called on their own: one call of check_response or of     *)
(* parse_status on an argument drawn from the payloads and items above.    *)

UnitCalls ==
    {[fn |-> "check_response", arg |-> p, done |-> FALSE] : p \in UnitPayloads}
    \cup {[fn |-> "parse_status", arg |-> h, done |-> FALSE] : h \in UnitItems}

InitUnit ==
    /\ PRACTICUM_TOKEN = Str("secret")
    /\ TELEGRAM_TOKEN = Str("secret")
    /\ TELEGRAM_CHAT_ID = Str("secret")
    /\ pc = "unit"
    /\ clock = 0
    /\ timestamp = 0
    /\ response = None
    /\ homeworks = None
    /\ idx = 0
    /\ message = None
    /\ error = NoError
    /\ log = <<>>
    /\ iter = 0
    /\ cursors = {}
    /\ lastNotified = [n \in PollNames |-> ""]
    /\ dropped = {}
    /\ repeated = FALSE
    /\ call \in UnitCalls
    /\ result = Return(None)

main_locals ==
    <<tokens, pc, clock, timestamp, response, homeworks, idx, message, error,
      log, iter, cursors, lastNotified, dropped, repeated>>

\* check_response moving the items out of the payload's list
CallCheckResponse_EmptiesList ==
    /\ call.fn = "check_response"
    /\ ~call.done
    /\ result' = check_response(call.arg)
    /\ call' = IF check_response(call.arg).raised
               THEN [call EXCEPT !.done = TRUE]
               ELSE [call EXCEPT !.done = TRUE,
                                 !.arg = Dict([homeworks |-> List(<<>>)])]
    /\ UNCHANGED main_locals

CallCheckResponse ==
    /\ call.fn = "check_response"
    /\ ~call.done
    /\ result' = check_response(call.arg)
    /\ call' = [call EXCEPT !.done = TRUE]
    /\ UNCHANGED main_locals

CallParseStatus ==
    /\ call.fn = "parse_status"
    /\ ~call.done
    /\ result' = parse_status(call.arg)
    /\ call' = [call EXCEPT !.done = TRUE]
    /\ UNCHANGED main_locals

NextUnit == CallCheckResponse \/ CallParseStatus

SpecUnit == InitUnit /\ [][NextUnit]_vars

-----------------------------------------------------------------------------
(* Vocabulary of the claims *)

\* main left the loop: an exception went past line 151
LoopExited == pc = "exited" /\ iter > 0

\* check_tokens raised and main ended at line 128
GateFailed == pc = "exited" /\ iter = 0

\* the log holds one whole iteration: it slept, or it was left by an exception
IterationOver == iter > 0 /\ pc \in {"fetch", "exited"}

Entries(op, why) == {i \in DOMAIN log : log[i].op = op /\ log[i].why = why}

ItemSends == Entries("send_message", "item")

ErrorSends == Entries("send_message", "error")

Sleeps == {i \in DOMAIN log : log[i].op = "sleep"}

\* a step of the try block other than a notification raised
StepRaised ==
    \E i \in DOMAIN log :
        /\ log[i].op \in {"get_api_answer", "check_response", "parse_status"}
        /\ log[i].out = "raised"

FetchRaised == log # <<>> /\ log[1].out = "raised"

\* check_response returned in this iteration, so homeworks is its list
Validated ==
    Len(log) >= 2 /\ log[2].op = "check_response" /\ log[2].out = "returned"

KnownStatus(x) == x.t = "str" /\ x.v \in {"approved", "reviewing", "rejected"}

Template(name, verdict) ==
    "Izmenilsya status proverki raboty \"" \o name \o "\". " \o verdict

-----------------------------------------------------------------------------
(* C1: once the loop is entered it never terminates.  Stated on its safety *)
(* part: main is never left by an exception after the first fetch.         *)
C1_LoopNeverTerminates == ~LoopExited

(* C2: send_message never fails outward: every call of it, for an item or  *)
(* from the error handler, returns normally whatever the delivery did.     *)
C2_SendMessageNeverRaises ==
    \A i \in DOMAIN log : log[i].op = "send_message" => log[i].out # "raised"

(* C3: an iteration in which get_api_answer, check_response or             *)
(* parse_status raised attempts exactly one error notification, then       *)
(* sleeps once and goes on to the next fetch; after a failed fetch there   *)
(* is no item notification; nothing leaves the loop.                       *)
C3_ErrorIterationNotifiesOnceThenSleeps ==
    (IterationOver /\ StepRaised) =>
        /\ Cardinality(ErrorSends) = 1
        /\ Cardinality(Sleeps) = 1
        /\ log[Len(log)].op = "sleep"
        /\ log[Len(log) - 1].op = "send_message"
        /\ log[Len(log) - 1].why = "error"
        /\ FetchRaised => ItemSends = {}
        /\ pc = "fetch"

(* C4: an item notification is sent only when the item's status differs    *)
(* from the status last notified for that item in an earlier iteration.    *)
C4_NotifyOnlyOnChange ==
    \A i \in ItemSends :
        lastNotified[ItemName(homeworks.v[log[i].n])]
            # ItemStatus(homeworks.v[log[i].n])

(* C5: the error get_api_answer raises for a response whose status is not  *)
(* OK is of another kind than the one it raises for a transport failure.   *)
C5_StatusErrorDistinctFromTransportError ==
    (pc = "except" /\ Len(log) = 1 /\ log[1].why = "status") =>
        error.type \notin
            {get_api_answer(timestamp, got).exc.type : got \in TransportFailures}

-----------------------------------------------------------------------------
\* a secret is absent or empty
TokenMissing(name) == ~Truthy(Globals(name))

(* C6: check_tokens raises exactly when a secret is absent or empty, and   *)
(* its error names exactly the absent or empty ones; main then fetches     *)
(* and notifies nothing.  With all three set it returns and main goes on.  *)
C6_CheckTokensNamesEveryMissingSecret ==
    pc # "start" =>
        IF \E i \in DOMAIN TOKEN_NAMES : TokenMissing(TOKEN_NAMES[i])
        THEN /\ GateFailed
             /\ log = <<>>
             /\ cursors = {}
             /\ error.text
                  = MSG_MISSING_ENV \o Join(SelectSeq(TOKEN_NAMES, TokenMissing))
        ELSE ~GateFailed

(* C7: an iteration whose validated list holds n items that all translate  *)
(* makes exactly n item notification attempts, parse_status and            *)
(* send_message alternating item by item in list order, each message the   *)
(* template with that item's name and verdict.                             *)
C7_OneNotificationPerItemInOrder ==
    (/\ IterationOver
     /\ Validated
     /\ \A k \in DOMAIN homeworks.v : ~parse_status(homeworks.v[k]).raised) =>
        /\ Cardinality(ItemSends) = Len(homeworks.v)
        /\ \A k \in DOMAIN homeworks.v :
              /\ log[2 * k + 1].op = "parse_status"
              /\ log[2 * k + 1].n = k
              /\ log[2 * k + 2].op = "send_message"
              /\ log[2 * k + 2].why = "item"
              /\ log[2 * k + 2].n = k
              /\ log[2 * k + 2].text
                   = Template(homeworks.v[k].v["homework_name"].v,
                              HOMEWORK_VERDICTS[homeworks.v[k].v["status"].v])

-----------------------------------------------------------------------------
\* parse_status was called on a work item (a JSON object) and has ended
ParsedItem == call.fn = "parse_status" /\ call.done /\ call.arg.t = "dict"

MissingFieldError(r) == r.raised /\ r.exc.type = "KeyError"

UnknownStatusError(r) == r.raised /\ r.exc.type = "ValueError"

ItemMessage(h) ==
    Return(Str(Template(h.v["homework_name"].v, HOMEWORK_VERDICTS[h.v["status"].v])))

(* C8 as written: missing-field error iff homework_name is absent; else    *)
(* unknown-status error if status is absent or not approved, reviewing or  *)
(* rejected; else exactly the template with the name and the verdict.      *)
C8_ParseStatusAsWritten ==
    ParsedItem =>
        IF "homework_name" \notin DOMAIN call.arg.v
        THEN MissingFieldError(result)
        ELSE IF "status" \notin DOMAIN call.arg.v
                \/ ~KnownStatus(call.arg.v["status"])
        THEN UnknownStatusError(result)
        ELSE result = ItemMessage(call.arg)

(* C8 amended: missing-field error if homework_name is absent or null (an  *)
(* empty-string name is not an error); else a TypeError if status is a     *)
(* list or an object; else unknown-status error if status is absent, null  *)
(* or not approved, reviewing or rejected; else exactly the template with  *)
(* the name and the verdict of the table.                                  *)
C8_ParseStatus ==
    ParsedItem =>
        IF "homework_name" \notin DOMAIN call.arg.v
              \/ call.arg.v["homework_name"].t = "None"
        THEN MissingFieldError(result)
        ELSE IF "status" \in DOMAIN call.arg.v
                /\ call.arg.v["status"].t \in {"list", "dict"}
        THEN result.raised /\ result.exc.type = "TypeError"
        ELSE IF "status" \notin DOMAIN call.arg.v
                \/ ~KnownStatus(call.arg.v["status"])
        THEN UnknownStatusError(result)
        ELSE result = ItemMessage(call.arg)

\* an item with an empty-string name and a known status was translated
C8_Witness ==
    /\ ParsedItem
    /\ "homework_name" \in DOMAIN call.arg.v
    /\ call.arg.v["homework_name"].t = "str"
    /\ call.arg.v["homework_name"].v = ""
    /\ ~result.raised
    /\ result.val.v
         = "Izmenilsya status proverki raboty \"\". Rabota vzyata na proverku revyuerom."

-----------------------------------------------------------------------------
ShapeError(r, text) ==
    r.raised /\ r.exc.type \in {"TypeError", "KeyError"} /\ r.exc.text = text

(* C9: check_response raises a shape error if the payload is not a         *)
(* mapping; else if it has no homeworks key; else if the homeworks value   *)
(* is not a list; else it returns the homeworks list as it is, whatever    *)
(* its items are.                                                          *)
C9_CheckResponse ==
    (call.fn = "check_response" /\ call.done) =>
        IF call.arg.t # "dict"
        THEN ShapeError(result, MSG_NOT_DICT)
        ELSE IF "homeworks" \notin DOMAIN call.arg.v
        THEN ShapeError(result, MSG_NO_KEYS)
        ELSE IF call.arg.v["homeworks"].t # "list"
        THEN ShapeError(result, MSG_NOT_LIST)
        ELSE /\ ~result.raised
             /\ result.val.t = "list"
             /\ Len(result.val.v) = Len(call.arg.v["homeworks"].v)
             /\ \A k \in DOMAIN result.val.v :
                   result.val.v[k] = call.arg.v["homeworks"].v[k]

\* a list of two items, one of them no work item at all, came back
C9_Witness ==
    /\ call.fn = "check_response"
    /\ call.done
    /\ ~result.raised
    /\ Len(result.val.v) >= 2
    /\ \E k \in DOMAIN result.val.v : result.val.v[k].t # "dict"
    /\ \E k \in DOMAIN result.val.v : result.val.v[k].t = "dict"

-----------------------------------------------------------------------------
\* sleeps completed since the loop started
SleepsDone == IF pc = "fetch" THEN iter ELSE iter - 1

(* C10: every get_api_answer call of a run carries one cursor, the time    *)
(* read once when the loop started; no iteration changes it.               *)
C10_CursorFixed ==
    (pc # "start" /\ ~GateFailed) =>
        /\ cursors \subseteq {timestamp}
        /\ log # <<>> => log[1].n = timestamp
        /\ timestamp + RETRY_PERIOD * SleepsDone = clock

\* a second fetch was made, after a failed iteration and a sleep
C10_Witness ==
    /\ iter >= 2
    /\ pc \in {"validate", "except"}
    /\ Len(log) = 1
    /\ clock > timestamp
    /\ cursors = {timestamp}

-----------------------------------------------------------------------------
ParseCalls == {i \in DOMAIN log : log[i].op = "parse_status"}

\* the item has a status and the verdict table does not hold it
StatusNotInTable(h) ==
    h.t = "dict" /\ "status" \in DOMAIN h.v /\ ~KnownStatus(h.v["status"])

HasName(h) ==
    h.t = "dict" /\ "homework_name" \in DOMAIN h.v
        /\ h.v["homework_name"].t # "None"

\* item k of the validated list: each translation of it raised, with an
\* unknown-status error, and no notification was attempted for it
FailsAsUnknownStatus(k) ==
    /\ \A i \in ParseCalls :
          log[i].n = k =>
              /\ log[i].out = "raised"
              /\ i = Len(log) => error.type = "ValueError"
    /\ \A i \in ItemSends : log[i].n # k

(* C11 as written: an item of the response whose status is not in the      *)
(* verdict table fails translation with an unknown-status error and gets   *)
(* no status notification in that iteration.                               *)
C11_UnknownStatusAsWritten ==
    Validated =>
        \A k \in DOMAIN homeworks.v :
            StatusNotInTable(homeworks.v[k]) => FailsAsUnknownStatus(k)

(* C11 amended: an item of the response that has a non-null homework_name  *)
(* and a hashable status that is not in the verdict table fails            *)
(* translation with an unknown-status error; and no item whose status is   *)
(* not in the table gets a status notification in that iteration.          *)
C11_UnknownStatus ==
    Validated =>
        \A k \in DOMAIN homeworks.v :
            StatusNotInTable(homeworks.v[k]) =>
                /\ \A i \in ItemSends : log[i].n # k
                /\ (/\ HasName(homeworks.v[k])
                    /\ Hashable(homeworks.v[k].v["status"]))
                      => FailsAsUnknownStatus(k)

\* the second item, HW2 with unknown_code, has just failed to translate
\* after the first item was notified
C11_Witness ==
    /\ Validated
    /\ pc = "except"
    /\ Len(homeworks.v) >= 2
    /\ ItemName(homeworks.v[2]) = "HW2"
    /\ ItemStatus(homeworks.v[2]) = "unknown_code"
    /\ log[Len(log)].op = "parse_status"
    /\ log[Len(log)].n = 2
    /\ error = Exc("ValueError", "Neozhidannyi status: unknown_code")
    /\ \E i \in ItemSends : log[i].n = 1

-----------------------------------------------------------------------------
\* this iteration fetched a mapping that has no homeworks key
FetchedWithoutHomeworks ==
    /\ log # <<>>
    /\ log[1].out = "returned"
    /\ response.t = "dict"
    /\ "homeworks" \notin DOMAIN response.v

(* C12: when the fetched payload lacks the homeworks key, check_response   *)
(* raises a shape error, parse_status is called for no item, and the       *)
(* iteration reports the error and then sleeps.                            *)
C12_MissingKeyReportedThenSleep ==
    (IterationOver /\ FetchedWithoutHomeworks) =>
        /\ Len(log) = 4
        /\ log[2].op = "check_response"
        /\ log[2].out = "raised"
        /\ ParseCalls = {}
        /\ log[3].op = "send_message"
        /\ log[3].why = "error"
        /\ log[3].text = MSG_FAILURE \o "'" \o MSG_NO_KEYS \o "'"
        /\ log[4].op = "sleep"
        /\ pc = "fetch"

-----------------------------------------------------------------------------
SendCalls == {i \in DOMAIN log : log[i].op = "send_message"}

(* C13: when the validated list is empty, the iteration calls send_message *)
(* not once, records the 'no new statuses' debug entry and then sleeps for *)
(* the retry period as in a normal iteration.                              *)
C13_EmptyListLogsAndSleeps ==
    (Validated /\ homeworks.v = <<>>) =>
        /\ SendCalls = {}
        /\ ParseCalls = {}
        /\ Len(log) <= 4
        /\ Len(log) = 2 => pc = "no_new"
        /\ Len(log) >= 3 => log[3] = Ev("debug", "", 0, MSG_NO_NEW, "returned")
        /\ Len(log) = 3 => pc = "sleep"
        /\ Len(log) = 4 =>
              /\ log[4] = Ev("sleep", "try", RETRY_PERIOD, "", "returned")
              /\ pc = "fetch"

\* an iteration with an empty list has slept
C13_Witness ==
    /\ Validated
    /\ homeworks.v = <<>>
    /\ Len(log) = 4
    /\ log[3].op = "debug"
    /\ log[4].op = "sleep"
    /\ pc = "fetch"
    /\ clock = timestamp + RETRY_PERIOD * iter

-----------------------------------------------------------------------------
(* C14: delivery is at-most-once: a message whose delivery attempt failed  *)
(* is never attempted again, neither for the same list entry within the    *)
(* iteration nor in a later iteration.                                     *)
C14_DroppedNeverAttemptedAgain ==
    /\ \A i, j \in ItemSends : (i # j) => log[i].n # log[j].n
    /\ \A i \in SendCalls : log[i].text \notin dropped

-----------------------------------------------------------------------------
FetchCalls == {i \in DOMAIN log : log[i].op = "get_api_answer"}

-----------------------------------------------------------------------------
\* a step of the try block raised an exception, send_message included
ErrorArose ==
    \/ StepRaised
    \/ \E i \in ItemSends : log[i].out = "raised"

(* C16: every iteration in which an error arose attempts one failure       *)
(* notification, built from that error alone, whether or not the same      *)
(* notification was attempted before; a persistent transport failure gets  *)
(* the same text each time.                                                *)
C16_FailureNotifiedEveryIteration ==
    (ErrorArose /\ pc # "except") =>
        /\ Cardinality(ErrorSends) = 1
        /\ \A i \in ErrorSends :
              /\ log[i].text = Format(message)
              /\ (log[1].out = "raised" /\ log[1].why = "transport") =>
                    log[i].text
                      = MSG_FAILURE \o MSG_REQUEST_ERROR \o "Connection refused"

\* a later iteration failed at the fetch like the one before it and the
\* handler has attempted the notification it had built before
C16_Witness ==
    /\ iter >= 2
    /\ pc = "except_sleep"
    /\ repeated
    /\ Len(log) = 2
    /\ log[1].why = "transport"
    /\ Cardinality(ErrorSends) = 1
    /\ log[2].text = "Sboi v rabote programmy: Oshibka zaprosa k API: Connection refused"

-----------------------------------------------------------------------------
-----------------------------------------------------------------------------
(* C18: when parse_status raises on item k, the iteration has attempted    *)
(* the notifications of items 1..k-1, in order and each after its own      *)
(* translation, attempts none for items k..n, and the handler then         *)
(* attempts exactly one error notification.                                *)
C18_BadItemBlocksLaterItems ==
    \A i \in ParseCalls :
        log[i].out = "raised" =>
            /\ i = 2 * log[i].n + 1
            /\ {log[j].n : j \in ItemSends} = 1..(log[i].n - 1)
            /\ \A j \in ItemSends :
                  j = 2 * log[j].n + 2 /\ j < i /\ log[j].out # "raised"
            /\ \A j \in ParseCalls : j <= i
            /\ IF pc = "except"
               THEN i = Len(log) /\ ErrorSends = {}
               ELSE ErrorSends = {i + 1}

\* the second of two items failed to translate: the first was notified
\* and the error was reported
C18_Witness ==
    /\ Validated
    /\ Len(homeworks.v) = 2
    /\ Len(log) = 6
    /\ log[5].op = "parse_status"
    /\ log[5].out = "raised"
    /\ log[4].op = "send_message"
    /\ log[4].why = "item"
    /\ log[4].out = "delivered"
    /\ log[6].op = "send_message"
    /\ log[6].why = "error"
    /\ pc = "except_sleep"

-----------------------------------------------------------------------------
(* C19: parse_status checks the name before the status: an item without    *)
(* homework_name whose status is absent or not in the table raises the     *)
(* missing-field error, not the unknown-status error.                      *)
C19_NameCheckedBeforeStatus ==
    (/\ ParsedItem
     /\ "homework_name" \notin DOMAIN call.arg.v
     /\ \/ "status" \notin DOMAIN call.arg.v
        \/ ~KnownStatus(call.arg.v["status"])) =>
        /\ result.raised
        /\ result.exc = Exc("KeyError", MSG_NO_NAME)

\* an item with status unknown_code and no name was translated
C19_Witness ==
    /\ ParsedItem
    /\ DOMAIN call.arg.v = {"status"}
    /\ call.arg.v["status"].t = "str"
    /\ call.arg.v["status"].v = "unknown_code"
    /\ MissingFieldError(result)

====
